---------------------------- MODULE Spec2Model ----------------------------
(***************************************************************************)
(* Key-frame extraction of video-to-ppt (lib/video-processing.ts and       *)
(* lib/utils.ts): the threshold calibrator preprocessVideo, the            *)
(* seek-driven frame extractor extractFramesFromVideo and the live capture *)
(* filter captureAndFilterScreenshot, all built on the difference metric   *)
(* calculateImageDifference.                                               *)
(*                                                                         *)
(* Numbers.  A JavaScript number that may be NaN is a record               *)
(* [nan, v]; times, thresholds and counters are integers.  Times are       *)
(* whole multiples of the time unit.                                       *)
(*                                                                         *)
(* Frames.  An ImageData is the sequence of its pixels <<r, g, b, a>>;     *)
(* null is the empty sequence (getImageData never returns an image         *)
(* without pixels: it throws on a canvas of zero area).  The frames of a   *)
(* source are uniformly grey, so that the weighted luminance and the       *)
(* root of the mean square are whole numbers and are computed exactly.     *)
(***************************************************************************)
EXTENDS Integers, Sequences, FiniteSets

\* ------------------------------------------------------------------ bounds
MaxDuration == 4        \* durations 0..MaxDuration of the small sources
MaxInterval == 3        \* capture intervals 1..MaxInterval
MaxCap == 2             \* maxScreenshots 0..MaxCap of the small runs
TalkDuration == 72      \* duration of the source run with the page's options
LongDuration == 200     \* duration of the long source (SpecLong)
MaxPushes == 4          \* frames pushed to the live capture filter
MaxCalDuration == 600   \* durations 0..MaxCalDuration of the calibrated sources
MaxHold == 2            \* a slide show holds a picture 1..MaxHold time units
MaxPixels == 2          \* frames of 1..MaxPixels pixels (SpecMetric)
MaxUserSeeks == 2       \* seeks of the user on the preview after a run

\* ------------------------------------------------------- program constants
PageCaptureInterval == 3
PageMaxScreenshots == 256
StagnationLimit == 20
RecordingDiffThreshold == 30
OnlineCaptureInterval == 4
OnlineMaxScreenshots == 200
MinSamples == 20
MaxSamples == 50
DefaultThreshold == 30
MinThreshold == 10
MaxThreshold == 60

\* --------------------------------------------------------------- numbers
Num(x) == [nan |-> FALSE, v |-> x]
NaN == [nan |-> TRUE, v |-> 0]

\* a > b, a >= b of JavaScript, b a plain number: false when a is NaN
Gt(a, b) == ~a.nan /\ a.v > b
Ge(a, b) == ~a.nan /\ a.v >= b

\* a <= b of JavaScript on two numbers that may be NaN
Leq(a, b) == ~a.nan /\ ~b.nan /\ a.v <= b.v

\* Math.min(a, b) and Math.max(a, b): NaN when an argument is NaN
MathMin(a, b) == IF a.nan \/ b.nan THEN NaN ELSE IF a.v <= b.v THEN a ELSE b
MathMax(a, b) == IF a.nan \/ b.nan THEN NaN ELSE IF a.v >= b.v THEN a ELSE b

\* Math.sqrt on the perfect squares the grey frames produce
Sqrt(x) == CHOOSE r \in 0..x : r * r = x

\* Math.round(x / y * 100) for x >= 0, y >= 0: 0 / 0 is NaN, and
\* Math.round rounds a half upwards
RoundPercent_Floor(x, y) == IF y = 0 THEN NaN ELSE Num((100 * x) \div y)

RoundPercent(x, y) ==
    IF y = 0
    THEN NaN
    ELSE Num((200 * x + y) \div (2 * y))

\* ---------------------------------------------------------------- frames
Null == <<>>
GreyLevels == <<0, 10, 40, 100>>
Grey(v) == << <<v, v, v, 255>> >>
Frames == {Grey(GreyLevels[i]) : i \in 1..Len(GreyLevels)}

\* 0.2126 * r + 0.7152 * g + 0.0722 * b
Luminance(px) == (2126 * px[1] + 7152 * px[2] + 722 * px[3]) \div 10000

RECURSIVE SumOfSquares(_, _, _)
SumOfSquares(img1, img2, i) ==
    IF i > Len(img1)
    THEN 0
    ELSE LET diff == Luminance(img1[i]) - Luminance(img2[i])
         IN  diff * diff + SumOfSquares(img1, img2, i + 1)

\* the loop runs over the pixels of imgData1; a pixel imgData2 lacks reads
\* as undefined and makes the sum NaN; no pixel at all gives 0 / 0
calculateImageDifference(imgData1, imgData2) ==
    IF Len(imgData1) = 0 \/ Len(imgData2) < Len(imgData1)
    THEN NaN
    ELSE Num(Sqrt(SumOfSquares(imgData1, imgData2, 1) \div Len(imgData1)))

\* ----------------------------------------------------------------- state
VARIABLES
    running,              \* which function this run exercises
    source,               \* what the video shows: any frame, or slides
    durationKnown,        \* video.duration is a number (metadata is loaded)
    \* preprocessVideo: locals (currentTime, previousImageData and pc are
    \* shared with extractFramesFromVideo, whichever function runs)
    differences,
    medianDiff,           \* NaN until it is assigned
    returnLog,            \* the values preprocessVideo returned, in order
    \* the environment of a run
    videoError,           \* the video failed: the pending seek never completes
    aborted,              \* the caller has abandoned the run
    userSeeks,            \* seeks of the user on the preview after the run
    \* the page that runs preprocessVideo and extractFramesFromVideo
    page,                 \* "none" (another caller), "local" or "online"
    processingState, pageScreenshots, pageProgress,
    videoLoad,            \* how far the video element has loaded
    \* the screen-recording page
    recordingState,
    captureTimer,         \* the timers of startScreenshotCapture
    \* a call of calculateImageDifference
    imgData1, imgData2,
    metricResult,         \* the values returned, in order
    \* extractFramesFromVideo: options
    totalDuration, captureInterval, differenceThreshold, maxScreenshots,
    \* extractFramesFromVideo: locals
    pc, currentTime, previousImageData, screenshots, noNewScreenshotCount,
    shouldCapture,
    videoCurrentTime,     \* video.currentTime, the target of the last seek
    \* extractFramesFromVideo: what the caller and the video observed
    seekLog,              \* the times sought, in order
    progressLog,          \* the values passed to onProgress, in order
    progressAt,           \* number of samples taken at each onProgress
    framesCaptured,       \* number of onFrameCaptured calls
    completeLog,          \* screenshots.length at each onComplete call
    sampled,              \* number of seeked events handled
    allSame,              \* every sampled frame so far shows the same picture
    \* captureAndFilterScreenshot
    diffThreshold, lastImageDataRef, livePending, liveDecisions,
    statsUpdates, liveCaptured

inputVars == <<running, source, durationKnown, totalDuration, captureInterval,
               differenceThreshold, maxScreenshots, diffThreshold>>
extractVars == <<pc, currentTime, previousImageData, screenshots,
                 noNewScreenshotCount, shouldCapture, videoCurrentTime,
                 seekLog, progressLog, progressAt, framesCaptured,
                 completeLog, sampled, allSame>>
liveVars == <<lastImageDataRef, livePending, liveDecisions, statsUpdates,
              liveCaptured>>
calVars == <<differences, medianDiff, returnLog>>
envVars == <<videoError, aborted, userSeeks>>
pageVars == <<page, processingState, pageScreenshots, pageProgress,
              videoLoad>>
recordVars == <<recordingState, captureTimer>>
metricVars == <<imgData1, imgData2, metricResult>>
vars == <<inputVars, extractVars, liveVars, calVars, envVars, pageVars,
          recordVars, metricVars>>

\* ---------------------------------------------------------------- inputs
Thresholds == {-1, 0, 10, 30, 60}

AnySource == [kind |-> "any", hold |-> 1, cycle |-> GreyLevels]
SlideShow(n, levels) == [kind |-> "slides", hold |-> n, cycle |-> levels]
Slides(n) == SlideShow(n, GreyLevels)

\* the frames the video may show at time t: a slide show changes to the
\* next grey level of its cycle every source.hold time units
FramesAt(t) ==
    IF source.kind = "any"
    THEN Frames
    ELSE {Grey(source.cycle[((t \div source.hold) % Len(source.cycle)) + 1])}

ExtractInit ==
    /\ pc = "start"
    /\ currentTime = 0
    /\ previousImageData = Null
    /\ screenshots = 0
    /\ noNewScreenshotCount = 0
    /\ shouldCapture = FALSE
    /\ videoCurrentTime = 0
    /\ seekLog = <<>>
    /\ progressLog = <<>>
    /\ progressAt = <<>>
    /\ framesCaptured = 0
    /\ completeLog = <<>>
    /\ sampled = 0
    /\ allSame = TRUE

CalInit ==
    /\ differences = <<>>
    /\ medianDiff = NaN
    /\ returnLog = <<>>

EnvInit ==
    /\ videoError = FALSE
    /\ aborted = FALSE
    /\ userSeeks = 0

\* the functions are called by another caller than the pages, on a video
\* that has loaded
NoPage ==
    /\ page = "none"
    /\ processingState = "idle"
    /\ pageScreenshots = 0
    /\ pageProgress = Num(0)
    /\ videoLoad = "data"

\* the screen-recording page is not recording
NoRecording ==
    /\ recordingState = "idle"
    /\ captureTimer = "none"

\* no direct call of calculateImageDifference
NoMetric ==
    /\ imgData1 = Null
    /\ imgData2 = Null
    /\ metricResult = <<>>

LiveInit ==
    /\ lastImageDataRef = Null
    /\ livePending = 0
    /\ liveDecisions = <<>>
    /\ statsUpdates = 0
    /\ liveCaptured = 0

\* small sources with every option, and a source of TalkDuration run with
\* the options of the local-video page
ExtractInputs ==
    \/ /\ totalDuration \in 0..MaxDuration
       /\ captureInterval \in 1..MaxInterval
       /\ maxScreenshots \in 0..MaxCap
    \/ /\ totalDuration = TalkDuration
       /\ captureInterval = PageCaptureInterval
       /\ maxScreenshots = PageMaxScreenshots

\* the options of a run that does not call extractFramesFromVideo
NoExtractInputs ==
    /\ totalDuration = 0
    /\ captureInterval = 1
    /\ maxScreenshots = 0
    /\ differenceThreshold = 0

ExtractRun ==
    /\ running = "extract"
    /\ durationKnown = TRUE
    /\ ExtractInputs
    /\ differenceThreshold \in Thresholds
    /\ source = AnySource
    /\ diffThreshold = 0

LiveRun ==
    /\ running = "live"
    /\ durationKnown = TRUE
    /\ diffThreshold \in Thresholds
    /\ source = AnySource
    /\ NoExtractInputs

\* Math.min(50, Math.max(20, Math.floor(totalDuration / 10)))
SampleCount(duration) ==
    LET tenths == duration \div 10
        atLeast == IF tenths >= MinSamples THEN tenths ELSE MinSamples
    IN  IF atLeast <= MaxSamples THEN atLeast ELSE MaxSamples

\* the durations that the sample count divides, so that the sample times
\* are whole numbers (and exact in floating point too)
CalDurations ==
    {d \in 0..MaxCalDuration : d % SampleCount(d) = 0}

\* slide shows of one, two or four grey levels
CalCycles == {<<0>>, <<0, 10>>, <<0, 40>>, <<0, 100>>, GreyLevels}
CalSources == {SlideShow(n, c) : n \in 1..MaxHold, c \in CalCycles}

\* a call of preprocessVideo, on a video with or without its metadata
CalibrateRun ==
    /\ running = "calibrate"
    /\ durationKnown \in BOOLEAN
    /\ totalDuration \in (IF durationKnown THEN CalDurations ELSE {0})
    /\ source \in (IF durationKnown THEN CalSources ELSE {SlideShow(1, <<0>>)})
    /\ captureInterval = 1
    /\ maxScreenshots = 0
    /\ differenceThreshold = 0
    /\ diffThreshold = 0

Init ==
    /\ ExtractRun \/ LiveRun \/ CalibrateRun
    /\ ExtractInit
    /\ LiveInit
    /\ CalInit
    /\ EnvInit
    /\ NoPage
    /\ NoRecording
    /\ NoMetric

\* long sources whose picture changes every one or two time units, run
\* with the cap of the local-video page
InitLong ==
    /\ running = "extract"
    /\ totalDuration \in {LongDuration - 1, LongDuration}
    /\ captureInterval = 1
    /\ maxScreenshots = PageMaxScreenshots
    /\ differenceThreshold = 30
    /\ diffThreshold = 0
    /\ source \in {Slides(1), Slides(2)}
    /\ durationKnown = TRUE
    /\ ExtractInit
    /\ LiveInit
    /\ CalInit
    /\ EnvInit
    /\ NoPage
    /\ NoRecording
    /\ NoMetric

\* video.currentTime = time: one more seek of the video element
SeekTo_Prefetch(log, time) == Append(Append(log, time), time)

SeekTo(log, time) == Append(log, time)

\* -------------------------------------------------------- preprocessVideo
\* totalDuration / sampleCount
PreProcessInterval == totalDuration \div SampleCount(totalDuration)

\* currentTime <= totalDuration && differences.length < sampleCount (both
\* comparisons are false when video.duration is NaN)
CalLoopCondition_Le(t, n) ==
    /\ durationKnown
    /\ t <= totalDuration
    /\ n <= SampleCount(totalDuration)

CalLoopCondition_NoCount(t, n) ==
    /\ durationKnown
    /\ t <= totalDuration

CalLoopCondition(t, n) ==
    /\ durationKnown
    /\ t <= totalDuration
    /\ n < SampleCount(totalDuration)

\* [...differences].sort((a, b) => a - b): a stable ascending sort of a copy.
\* RankIn is the position element j takes: after the smaller elements and
\* after the equal ones that come before it
RankIn(seq, j) ==
    Cardinality({k \in 1..Len(seq) :
                    \/ seq[k].v < seq[j].v
                    \/ seq[k].v = seq[j].v /\ k <= j})

SortAscending_Unsorted(seq) == seq

SortAscending(seq) ==
    [i \in 1..Len(seq) |-> seq[CHOOSE j \in 1..Len(seq) : RankIn(seq, j) = i]]

\* Math.floor(sortedDifferences.length / 2), as an index from 1
MedianIndex_Lower(n) == ((n - 1) \div 2) + 1

MedianIndex(n) == (n \div 2) + 1

\* Math.max(10, Math.min(medianDiff, 60))
Clamp_NoUpper(median) == MathMax(Num(MinThreshold), median)

Clamp(median) ==
    MathMax(Num(MinThreshold), MathMin(median, Num(MaxThreshold)))

\* sortedDifferences[Math.floor(sortedDifferences.length / 2)]
MedianOf(diffs) ==
    LET sortedDifferences == SortAscending(diffs)
    IN  sortedDifferences[MedianIndex(Len(sortedDifferences))]

\* the statements after the sampling loop: the value returned (reading an
\* empty array gives undefined, which Math.min turns into NaN)
FinalThreshold_NoDefault(diffs) ==
    IF Len(diffs) = 0
    THEN NaN
    ELSE Clamp(MedianOf(diffs))

FinalThreshold(diffs) ==
    IF Len(diffs) = 0
    THEN Num(DefaultThreshold)
    ELSE Clamp(MedianOf(diffs))

\* the head of the sampling loop with the locals t and diffs: the next
\* capturePreProcessFrame(t) sets video.currentTime and registers onseeked,
\* or the loop ends and the threshold is returned
CalLoopHead(t, diffs) ==
    IF CalLoopCondition(t, Len(diffs))
    THEN /\ videoCurrentTime' = t
         /\ seekLog' = SeekTo(seekLog, t)
         /\ pc' = "seeking"
         /\ UNCHANGED <<medianDiff, returnLog>>
    ELSE /\ pc' = "done"
         /\ medianDiff' = IF Len(diffs) = 0 THEN medianDiff
                          ELSE MedianOf(diffs)
         /\ returnLog' = Append(returnLog, FinalThreshold(diffs))
         /\ UNCHANGED <<videoCurrentTime, seekLog>>

\* the call, up to the first await
PreprocessStart ==
    /\ running = "calibrate"
    /\ pc = "start"
    /\ CalLoopHead(currentTime, differences)
    /\ UNCHANGED <<currentTime, previousImageData, sampled, differences>>
    /\ UNCHANGED <<screenshots, noNewScreenshotCount, shouldCapture,
                   progressLog, progressAt, framesCaptured, completeLog,
                   allSame>>
    /\ UNCHANGED <<inputVars, liveVars, envVars>>
    /\ UNCHANGED <<pageVars, recordVars, metricVars>>

\* video.onseeked of capturePreProcessFrame
OnSeekedPreProcess ==
    /\ running = "calibrate"
    /\ pc = "seeking"
    /\ ~videoError
    /\ \E currentImageData \in FramesAt(videoCurrentTime) :
          /\ differences' =
                IF previousImageData # Null
                THEN Append(differences,
                            calculateImageDifference(previousImageData,
                                                     currentImageData))
                ELSE differences
          /\ previousImageData' = currentImageData
    /\ sampled' = sampled + 1
    /\ pc' = "resolved"
    /\ UNCHANGED <<currentTime, videoCurrentTime, seekLog, medianDiff,
                   returnLog>>
    /\ UNCHANGED <<screenshots, noNewScreenshotCount, shouldCapture,
                   progressLog, progressAt, framesCaptured, completeLog,
                   allSame>>
    /\ UNCHANGED <<inputVars, liveVars, envVars>>
    /\ UNCHANGED <<pageVars, recordVars, metricVars>>

\* the loop body after await capturePreProcessFrame(currentTime), up to the
\* next await or to the return
AfterPreProcessFrame ==
    /\ running = "calibrate"
    /\ pc = "resolved"
    /\ currentTime' = currentTime + PreProcessInterval
    /\ CalLoopHead(currentTime', differences)
    /\ UNCHANGED <<previousImageData, sampled, differences>>
    /\ UNCHANGED <<screenshots, noNewScreenshotCount, shouldCapture,
                   progressLog, progressAt, framesCaptured, completeLog,
                   allSame>>
    /\ UNCHANGED <<inputVars, liveVars, envVars>>
    /\ UNCHANGED <<pageVars, recordVars, metricVars>>

\* ------------------------------------------------- extractFramesFromVideo
\* screenshots.length < maxScreenshots (the loop condition and the guard of
\* the encode)
BelowCap_Le(n) == n <= maxScreenshots

BelowCap(n) == n < maxScreenshots

\* currentTime <= totalDuration && screenshots.length < maxScreenshots
LoopCondition_NoCap(t, n) == t <= totalDuration

LoopCondition_Strict(t, n) == t < totalDuration /\ BelowCap(n)

LoopCondition(t, n) == t <= totalDuration /\ BelowCap(n)

\* the decision of the seeked handler on the frame cur against the
\* reference prev
ShouldCapture_Ge(prev, cur, threshold) ==
    IF prev # Null
    THEN Ge(calculateImageDifference(prev, cur), threshold)
    ELSE TRUE

ShouldCapture(prev, cur, threshold) ==
    IF prev # Null
    THEN Gt(calculateImageDifference(prev, cur), threshold)
    ELSE TRUE

\* noNewScreenshotCount after the decision
NextNoNewCount_NoReset(prev, should, count) ==
    IF prev # Null /\ ~should THEN count + 1 ELSE count

NextNoNewCount(prev, should, count) ==
    IF prev # Null
    THEN IF ~should THEN count + 1 ELSE 0
    ELSE count

\* previousImageData = currentImageData, the last statement of the seeked
\* handler, after the decision and whatever it was
NextReference_Accepted(prev, cur, should) == IF should THEN cur ELSE prev

NextReference(prev, cur, should) == cur

\* noNewScreenshotCount > 20
Stagnant_Ge(count) == count >= StagnationLimit

Stagnant(count) == count > StagnationLimit

\* currentTime += captureInterval
Advance_Stay(t) == t

Advance(t) == t + captureInterval

\* Math.round((currentTime / totalDuration) * 100)
Progress_Floor(t) == RoundPercent_Floor(t, totalDuration)

Progress_Remaining(t) == RoundPercent(totalDuration - t, totalDuration)

Progress_Ahead(t) == RoundPercent(t + captureInterval, totalDuration)

Progress(t) == RoundPercent(t, totalDuration)

\* onComplete(screenshots), the statement after the loop
OnComplete_Never(log, n) == log

OnComplete(log, n) == Append(log, n)

\* the head of the while loop with the locals t and n: the next
\* captureFrame(t) sets video.currentTime and registers onseeked, or the
\* loop ends and onComplete(screenshots) is called
LoopHead(t, n) ==
    IF LoopCondition(t, n)
    THEN /\ videoCurrentTime' = t
         /\ seekLog' = SeekTo(seekLog, t)
         /\ pc' = "seeking"
         /\ completeLog' = completeLog
    ELSE /\ pc' = "done"
         /\ completeLog' = OnComplete(completeLog, n)
         /\ UNCHANGED <<videoCurrentTime, seekLog>>

\* the callbacks a page passes: onProgress sets the progress bar,
\* onFrameCaptured appends the url to the list of screenshots, onComplete
\* sets processingState and the progress bar; another caller's callbacks
\* leave the pages alone
OnPage == page # "none"

PageOnFrameCaptured ==
    /\ pageScreenshots' = IF OnPage THEN pageScreenshots + 1
                          ELSE pageScreenshots
    /\ UNCHANGED <<page, processingState, pageProgress, videoLoad>>

\* onProgress(p) if the step has progressed, then onComplete if it ends the
\* run
PageCallbacks(progressed, p, ends) ==
    /\ processingState' = IF OnPage /\ ends THEN "completed"
                          ELSE processingState
    /\ pageProgress' = IF OnPage /\ ends THEN Num(100)
                       ELSE IF OnPage /\ progressed THEN p
                       ELSE pageProgress
    /\ UNCHANGED <<page, pageScreenshots, videoLoad>>

\* the call, up to the first await (the canvas of the pages is only ever
\* used with its 2d context, so getContext("2d") is not null)
ExtractStart ==
    /\ running = "extract"
    /\ pc = "start"
    /\ LoopHead(currentTime, screenshots)
    /\ PageCallbacks(FALSE, pageProgress,
                     ~LoopCondition(currentTime, screenshots))
    /\ UNCHANGED <<currentTime, previousImageData, screenshots,
                   noNewScreenshotCount, shouldCapture, progressLog,
                   progressAt, framesCaptured, sampled, allSame>>
    /\ UNCHANGED <<inputVars, liveVars, calVars, envVars>>
    /\ UNCHANGED <<recordVars, metricVars>>

\* the handler captureFrame assigns to video.onseeked, run on the frame
\* the video shows; it goes on to toBlob or resolves the promise
SeekedHandler(currentImageData, whenEncoding, whenResolved) ==
    LET should == ShouldCapture(previousImageData, currentImageData,
                                differenceThreshold)
    IN  /\ shouldCapture' = should
        /\ noNewScreenshotCount' =
              NextNoNewCount(previousImageData, should, noNewScreenshotCount)
        /\ pc' = IF should /\ BelowCap(screenshots)
                 THEN whenEncoding
                 ELSE whenResolved
        /\ previousImageData' =
              NextReference(previousImageData, currentImageData, should)
        /\ allSame' = (allSame /\ (previousImageData = Null \/
                                   currentImageData = previousImageData))

\* video.onseeked of captureFrame, for the seek of the run
OnSeeked ==
    /\ running = "extract"
    /\ pc = "seeking"
    /\ ~videoError
    /\ \E currentImageData \in FramesAt(videoCurrentTime) :
          SeekedHandler(currentImageData, "encoding", "resolved")
    /\ sampled' = sampled + 1
    /\ UNCHANGED <<currentTime, screenshots, videoCurrentTime, seekLog,
                   progressLog, progressAt, framesCaptured, completeLog>>
    /\ UNCHANGED <<inputVars, liveVars, calVars, envVars>>
    /\ UNCHANGED <<pageVars, recordVars, metricVars>>

\* the callback of canvas.toBlob (the canvas has pixels, so the blob is not
\* null): the blob is stored and handed to onFrameCaptured, and resolve() is
\* called, which does nothing once the promise is resolved
ToBlobCallback ==
    /\ running = "extract"
    /\ pc \in {"encoding", "lateEncoding"}
    /\ screenshots' = screenshots + 1
    /\ framesCaptured' = framesCaptured + 1
    /\ PageOnFrameCaptured
    /\ pc' = IF pc = "encoding" THEN "resolved" ELSE "done"
    /\ UNCHANGED <<currentTime, previousImageData, noNewScreenshotCount,
                   shouldCapture, videoCurrentTime, seekLog, progressLog,
                   progressAt, completeLog, sampled, allSame>>
    /\ UNCHANGED <<inputVars, liveVars, calVars, envVars>>
    /\ UNCHANGED <<recordVars, metricVars>>

\* the loop body after await captureFrame(currentTime), up to the next
\* await or to onComplete
AfterCapture ==
    /\ running = "extract"
    /\ pc = "resolved"
    /\ progressLog' = Append(progressLog, Progress(currentTime))
    /\ progressAt' = Append(progressAt, sampled)
    /\ currentTime' = Advance(currentTime)
    /\ IF Stagnant(noNewScreenshotCount)
       THEN /\ pc' = "done"
            /\ completeLog' = OnComplete(completeLog, screenshots)
            /\ UNCHANGED <<videoCurrentTime, seekLog>>
       ELSE LoopHead(currentTime', screenshots)
    /\ PageCallbacks(TRUE, Progress(currentTime),
                     \/ Stagnant(noNewScreenshotCount)
                     \/ ~LoopCondition(Advance(currentTime), screenshots))
    /\ UNCHANGED <<previousImageData, screenshots, noNewScreenshotCount,
                   shouldCapture, framesCaptured, sampled, allSame>>
    /\ UNCHANGED <<inputVars, liveVars, calVars, envVars>>
    /\ UNCHANGED <<recordVars, metricVars>>

\* --------------------------------------------- captureAndFilterScreenshot
LiveShouldCapture_SkipFirst(last, cur, threshold) ==
    IF last # Null
    THEN Gt(calculateImageDifference(last, cur), threshold)
    ELSE FALSE

LiveShouldCapture(last, cur, threshold) ==
    IF last # Null
    THEN Gt(calculateImageDifference(last, cur), threshold)
    ELSE TRUE

\* lastImageDataRef.current = currentImageData, after the decision and
\* whatever it was
NextLiveReference_Accepted(last, cur, accept) == IF accept THEN cur ELSE last

NextLiveReference(last, cur, accept) == cur

\* the body of the function, with the frame the live video shows (video
\* and canvas are mounted and the canvas has its 2d context)
CaptureAndFilter ==
    /\ statsUpdates < MaxPushes
    /\ \E currentImageData \in Frames :
          LET accept == LiveShouldCapture(lastImageDataRef, currentImageData,
                                          diffThreshold)
          IN  /\ statsUpdates' = statsUpdates + 1
              /\ livePending' = IF accept THEN livePending + 1
                                ELSE livePending
              /\ liveDecisions' =
                    Append(liveDecisions,
                           [ref |-> lastImageDataRef,
                            frame |-> currentImageData,
                            accepted |-> accept])
              /\ lastImageDataRef' =
                    NextLiveReference(lastImageDataRef, currentImageData,
                                      accept)
    /\ UNCHANGED liveCaptured

\* one call by any caller
CaptureAndFilterScreenshot ==
    /\ running = "live"
    /\ CaptureAndFilter
    /\ UNCHANGED <<inputVars, extractVars, calVars, envVars>>
    /\ UNCHANGED <<pageVars, recordVars, metricVars>>

\* the callback of canvas.toBlob: onScreenshotCaptured(url)
LiveToBlobCallback ==
    /\ running \in {"live", "record"}
    /\ livePending > 0
    /\ livePending' = livePending - 1
    /\ liveCaptured' = liveCaptured + 1
    /\ UNCHANGED <<lastImageDataRef, liveDecisions, statsUpdates>>
    /\ UNCHANGED <<inputVars, extractVars, calVars, envVars>>
    /\ UNCHANGED <<pageVars, recordVars, metricVars>>

\* ------------------------------------------------------- specifications
Next ==
    \/ ExtractStart
    \/ OnSeeked
    \/ ToBlobCallback
    \/ AfterCapture
    \/ CaptureAndFilterScreenshot
    \/ LiveToBlobCallback
    \/ PreprocessStart
    \/ OnSeekedPreProcess
    \/ AfterPreProcessFrame

Spec == Init /\ [][Next]_vars

\* the extractor alone, on the long sources
ExtractNext ==
    \/ ExtractStart
    \/ OnSeeked
    \/ ToBlobCallback
    \/ AfterCapture

SpecLong == InitLong /\ [][ExtractNext]_vars

\* ------------------------------------------------- calculateImageDifference
\* a frame of n pixels of one grey level
Uniform(v, n) == [i \in 1..n |-> Grey(v)[1]]

MetricFrames ==
    {Uniform(GreyLevels[i], n) : i \in 1..Len(GreyLevels), n \in 1..MaxPixels}

\* one direct call of calculateImageDifference on any two frames
InitMetric ==
    /\ running = "metric"
    /\ imgData1 \in MetricFrames
    /\ imgData2 \in MetricFrames
    /\ metricResult = <<>>
    /\ durationKnown = TRUE
    /\ source = AnySource
    /\ diffThreshold = 0
    /\ NoExtractInputs
    /\ ExtractInit
    /\ LiveInit
    /\ CalInit
    /\ EnvInit
    /\ NoPage
    /\ NoRecording

\* the call: the function has no throw statement and returns a number
CalculateImageDifference ==
    /\ running = "metric"
    /\ metricResult = <<>>
    /\ metricResult' = <<calculateImageDifference(imgData1, imgData2)>>
    /\ UNCHANGED <<imgData1, imgData2>>
    /\ UNCHANGED <<inputVars, extractVars, liveVars, calVars, envVars,
                   pageVars, recordVars>>

SpecMetric == InitMetric /\ [][CalculateImageDifference]_vars

\* ----------------------------------------------- the screen-recording page
\* the page has its stream and is ready to record
InitRecording ==
    /\ running = "record"
    /\ recordingState = "ready"
    /\ captureTimer = "none"
    /\ diffThreshold = RecordingDiffThreshold
    /\ durationKnown = TRUE
    /\ source = AnySource
    /\ totalDuration = 0
    /\ captureInterval = 1
    /\ maxScreenshots = 0
    /\ differenceThreshold = 0
    /\ ExtractInit
    /\ LiveInit
    /\ CalInit
    /\ EnvInit
    /\ NoPage
    /\ NoMetric

\* handleStartRecording: the recorder starts and startScreenshotCapture
\* sets its 2 second timeout
HandleStartRecording ==
    /\ running = "record"
    /\ recordingState = "ready"
    /\ recordingState' = "recording"
    /\ captureTimer' = "delay"
    /\ UNCHANGED <<inputVars, extractVars, liveVars, calVars, envVars,
                   pageVars, metricVars>>

\* the callback of the timeout: setInterval(..., 3000)
CaptureDelayElapsed ==
    /\ running = "record"
    /\ captureTimer = "delay"
    /\ captureTimer' = "interval"
    /\ UNCHANGED recordingState
    /\ UNCHANGED <<inputVars, extractVars, liveVars, calVars, envVars,
                   pageVars, metricVars>>

\* the callback of the interval: a capture while recording, clearInterval
\* in any other state (the video shows the stream, so captureScreenshot
\* reaches captureAndFilterScreenshot)
CaptureIntervalTick ==
    /\ running = "record"
    /\ captureTimer = "interval"
    /\ IF recordingState = "recording"
       THEN /\ CaptureAndFilter
            /\ UNCHANGED captureTimer
       ELSE /\ captureTimer' = "cleared"
            /\ UNCHANGED liveVars
    /\ UNCHANGED recordingState
    /\ UNCHANGED <<inputVars, extractVars, calVars, envVars, pageVars,
                   metricVars>>

\* handlePauseResume: the recorder is paused or resumed; the capture timers
\* are not touched
HandlePauseResume ==
    /\ running = "record"
    /\ recordingState \in {"recording", "paused"}
    /\ recordingState' = IF recordingState = "recording" THEN "paused"
                         ELSE "recording"
    /\ UNCHANGED captureTimer
    /\ UNCHANGED <<inputVars, extractVars, liveVars, calVars, envVars,
                   pageVars, metricVars>>

\* handleStopRecording
HandleStopRecording ==
    /\ running = "record"
    /\ recordingState \in {"recording", "paused"}
    /\ recordingState' = "processing"
    /\ UNCHANGED captureTimer
    /\ UNCHANGED <<inputVars, extractVars, liveVars, calVars, envVars,
                   pageVars, metricVars>>

\* mediaRecorder.onstop
OnRecorderStop ==
    /\ running = "record"
    /\ recordingState = "processing"
    /\ recordingState' = "completed"
    /\ UNCHANGED captureTimer
    /\ UNCHANGED <<inputVars, extractVars, liveVars, calVars, envVars,
                   pageVars, metricVars>>

NextRecording ==
    \/ HandleStartRecording
    \/ CaptureDelayElapsed
    \/ CaptureIntervalTick
    \/ HandlePauseResume
    \/ HandleStopRecording
    \/ OnRecorderStop
    \/ LiveToBlobCallback

SpecRecording == InitRecording /\ [][NextRecording]_vars

\* ------------------------------------------------------------- fair runs
\* every seek is followed by its seeked event and every callback that is
\* ready is run: the extractor on short sources whatever they show and on
\* the still talk, preprocessVideo on the shortest and the longest sources
\* of CalibrateRun
InitFairExtract ==
    /\ running = "extract"
    /\ durationKnown = TRUE
    /\ \/ /\ totalDuration \in 0..MaxDuration
          /\ captureInterval \in 1..MaxInterval
          /\ maxScreenshots \in 0..MaxCap
          /\ differenceThreshold \in Thresholds
          /\ source = AnySource
       \/ /\ totalDuration = TalkDuration
          /\ captureInterval = PageCaptureInterval
          /\ maxScreenshots = PageMaxScreenshots
          /\ differenceThreshold = DefaultThreshold
          /\ source \in {SlideShow(1, <<0>>), Slides(1)}
    /\ diffThreshold = 0
    /\ ExtractInit
    /\ LiveInit
    /\ CalInit
    /\ EnvInit
    /\ NoPage
    /\ NoRecording
    /\ NoMetric

SpecFairExtract ==
    InitFairExtract /\ [][ExtractNext]_vars /\ WF_vars(ExtractNext)

InitFairCal ==
    /\ CalibrateRun
    /\ totalDuration <= 5 * MinSamples \/ totalDuration >= 10 * MaxSamples
    /\ ExtractInit
    /\ LiveInit
    /\ CalInit
    /\ EnvInit
    /\ NoPage
    /\ NoRecording
    /\ NoMetric

CalNext ==
    \/ PreprocessStart
    \/ OnSeekedPreProcess
    \/ AfterPreProcessFrame

SpecFairCal == InitFairCal /\ [][CalNext]_vars /\ WF_vars(CalNext)

\* ------------------------------------------ the pages that process a video
\* video.duration is a number once the metadata is loaded
MetadataKnown(load) == load \in {"metadata", "data"}

\* handleProcessVideo waits for loadedmetadata: always on the online-video
\* page, and if (video.readyState < 2) on the local-video page
WaitsForMetadata(p, load) == p = "online" \/ load # "data"

\* a click on the process button of page p: the video element has loaded
\* nothing yet, its metadata, or its first frame too
PageRun(p, interval, cap) ==
    /\ running = "page"
    /\ page = p
    /\ processingState = "idle"
    /\ pageScreenshots = 0
    /\ pageProgress = Num(0)
    /\ videoLoad \in {"nothing", "metadata", "data"}
    /\ durationKnown = MetadataKnown(videoLoad)
    /\ totalDuration \in {0, MinSamples}
    /\ captureInterval = interval
    /\ maxScreenshots = cap
    /\ differenceThreshold = 0
    /\ diffThreshold = 0
    /\ source \in {SlideShow(1, <<0>>), SlideShow(1, <<0, 100>>)}

\* handleProcessVideo, up to its first await: the wait for the metadata, or
\* the first seek of preprocessVideo (PreprocessStart is the rest of this
\* step)
HandleProcessVideo ==
    /\ running = "page"
    /\ pc = "start"
    /\ processingState' = "analyzing"
    /\ pageProgress' = Num(0)
    /\ pageScreenshots' = 0
    /\ IF WaitsForMetadata(page, videoLoad)
       THEN /\ pc' = "awaitMetadata"
            /\ running' = running
       ELSE /\ pc' = "start"
            /\ running' = "calibrate"
    /\ UNCHANGED <<page, videoLoad>>
    /\ UNCHANGED <<source, durationKnown, totalDuration, captureInterval,
                   differenceThreshold, maxScreenshots, diffThreshold>>
    /\ UNCHANGED <<currentTime, previousImageData, screenshots,
                   noNewScreenshotCount, shouldCapture, videoCurrentTime,
                   seekLog, progressLog, progressAt, framesCaptured,
                   completeLog, sampled, allSame>>
    /\ UNCHANGED <<liveVars, calVars, envVars, recordVars, metricVars>>

\* the video element fires loadedmetadata: video.duration is known, and
\* the handler a waiting handleProcessVideo has registered resolves its
\* promise (the local-video page sets "analyzing" once more before it calls
\* preprocessVideo)
MetadataLoaded ==
    /\ page # "none"
    /\ videoLoad = "nothing"
    /\ videoLoad' = "metadata"
    /\ durationKnown' = TRUE
    /\ IF pc = "awaitMetadata"
       THEN /\ pc' = "start"
            /\ running' = "calibrate"
            /\ processingState' = IF page = "local" THEN "analyzing"
                                  ELSE processingState
       ELSE UNCHANGED <<pc, running, processingState>>
    /\ UNCHANGED <<page, pageScreenshots, pageProgress>>
    /\ UNCHANGED <<source, totalDuration, captureInterval,
                   differenceThreshold, maxScreenshots, diffThreshold>>
    /\ UNCHANGED <<currentTime, previousImageData, screenshots,
                   noNewScreenshotCount, shouldCapture, videoCurrentTime,
                   seekLog, progressLog, progressAt, framesCaptured,
                   completeLog, sampled, allSame>>
    /\ UNCHANGED <<liveVars, calVars, envVars, recordVars, metricVars>>

\* the video element fires error before it has loaded anything: the
\* handler a waiting handleProcessVideo has registered rejects its promise,
\* and the catch block sets the state
VideoLoadFails ==
    /\ page # "none"
    /\ videoLoad = "nothing"
    /\ videoLoad' = "failed"
    /\ IF pc = "awaitMetadata"
       THEN /\ pc' = "failed"
            /\ processingState' = "error"
       ELSE UNCHANGED <<pc, processingState>>
    /\ UNCHANGED <<page, pageScreenshots, pageProgress>>
    /\ UNCHANGED <<inputVars>>
    /\ UNCHANGED <<currentTime, previousImageData, screenshots,
                   noNewScreenshotCount, shouldCapture, videoCurrentTime,
                   seekLog, progressLog, progressAt, framesCaptured,
                   completeLog, sampled, allSame>>
    /\ UNCHANGED <<liveVars, calVars, envVars, recordVars, metricVars>>

\* handleProcessVideo after await preprocessVideo: the state is set and
\* extractFramesFromVideo is called with the threshold returned and the
\* page's options (ExtractStart is the rest of this step)
AfterPreprocess ==
    /\ page # "none"
    /\ running = "calibrate"
    /\ pc = "done"
    /\ processingState' = "extracting"
    /\ running' = "extract"
    /\ differenceThreshold' = returnLog[Len(returnLog)].v
    /\ pc' = "start"
    /\ currentTime' = 0
    /\ previousImageData' = Null
    /\ videoCurrentTime' = videoCurrentTime
    /\ seekLog' = <<>>
    /\ sampled' = 0
    /\ allSame' = TRUE
    /\ UNCHANGED <<page, pageScreenshots, pageProgress, videoLoad>>
    /\ UNCHANGED <<source, durationKnown, totalDuration, captureInterval,
                   maxScreenshots, diffThreshold>>
    /\ UNCHANGED <<screenshots, noNewScreenshotCount, shouldCapture,
                   progressLog, progressAt, framesCaptured, completeLog>>
    /\ UNCHANGED <<liveVars, calVars, envVars, recordVars, metricVars>>

\* handleReset while handleProcessVideo is waiting for an event: the page's
\* state is cleared; nothing is said to the run, whose functions take no
\* signal and whose callbacks stay registered
HandleReset ==
    /\ page # "none"
    /\ pc \in {"awaitMetadata", "seeking", "encoding"}
    /\ ~aborted
    /\ aborted' = TRUE
    /\ processingState' = "idle"
    /\ pageProgress' = Num(0)
    /\ pageScreenshots' = 0
    /\ UNCHANGED <<page, videoLoad>>
    /\ UNCHANGED <<videoError, userSeeks>>
    /\ UNCHANGED <<inputVars, extractVars, liveVars, calVars>>
    /\ UNCHANGED <<recordVars, metricVars>>

\* the online-video page processes a video whose pictures arrive
InitOnline ==
    /\ PageRun("online", OnlineCaptureInterval, OnlineMaxScreenshots)
    /\ ExtractInit
    /\ LiveInit
    /\ CalInit
    /\ EnvInit
    /\ NoRecording
    /\ NoMetric

\* the steps of handleProcessVideo and of the two functions it awaits, and
\* the events of the loading video
NextOnline ==
    \/ HandleProcessVideo
    \/ MetadataLoaded
    \/ VideoLoadFails
    \/ PreprocessStart
    \/ OnSeekedPreProcess
    \/ AfterPreProcessFrame
    \/ AfterPreprocess
    \/ ExtractStart
    \/ OnSeeked
    \/ ToBlobCallback
    \/ AfterCapture

\* the event loop runs every continuation and callback that is ready, and
\* a video that is loading ends up with its metadata or with an error
SpecOnline == InitOnline /\ [][NextOnline]_vars /\ WF_vars(NextOnline)

\* --------------------------------------------------------- the environment
\* the video never fires seeked for the seek in flight (the source is gone
\* or broken): captureFrame and capturePreProcessFrame register onseeked
\* only, no onerror and no timer
SeekFails ==
    /\ running \in {"extract", "calibrate"}
    /\ pc = "seeking"
    /\ ~videoError
    /\ videoError' = TRUE
    /\ UNCHANGED <<aborted, userSeeks>>
    /\ UNCHANGED <<inputVars, extractVars, liveVars, calVars>>
    /\ UNCHANGED <<pageVars, recordVars, metricVars>>

\* a caller other than the pages gives the run up while it is in progress:
\* extractFramesFromVideo and preprocessVideo take no signal and read
\* nothing the caller can set
CallerAborts ==
    /\ page = "none"
    /\ running \in {"extract", "calibrate"}
    /\ pc \in {"seeking", "encoding", "resolved"}
    /\ ~aborted
    /\ aborted' = TRUE
    /\ UNCHANGED <<videoError, userSeeks>>
    /\ UNCHANGED <<inputVars, extractVars, liveVars, calVars>>
    /\ UNCHANGED <<pageVars, recordVars, metricVars>>

\* the user seeks the video with the controls of the preview after the run:
\* video.onseeked still holds the handler of the last captureFrame, which
\* runs on the frame shown (its resolve() does nothing, the promise being
\* resolved)
UserSeeks ==
    /\ running = "extract"
    /\ pc = "done"
    /\ seekLog # <<>>
    /\ ~videoError
    /\ userSeeks < MaxUserSeeks
    /\ userSeeks' = userSeeks + 1
    /\ \E t \in 0..totalDuration :
          /\ videoCurrentTime' = t
          /\ \E currentImageData \in FramesAt(t) :
                SeekedHandler(currentImageData, "lateEncoding", "done")
    /\ UNCHANGED <<videoError, aborted>>
    /\ UNCHANGED <<currentTime, screenshots, seekLog, progressLog,
                   progressAt, framesCaptured, completeLog, sampled>>
    /\ UNCHANGED <<inputVars, liveVars, calVars>>
    /\ UNCHANGED <<pageVars, recordVars, metricVars>>

\* short runs of the extractor and of preprocessVideo, and the local-video
\* page
InitEnv ==
    /\ \/ /\ running = "extract"
          /\ totalDuration \in 1..2
          /\ captureInterval = 1
          /\ maxScreenshots \in 1..MaxCap
          /\ differenceThreshold = DefaultThreshold
          /\ source = AnySource
          /\ durationKnown = TRUE
          /\ diffThreshold = 0
          /\ NoPage
       \/ /\ running = "calibrate"
          /\ totalDuration \in {0, MinSamples}
          /\ captureInterval = 1
          /\ maxScreenshots = 0
          /\ differenceThreshold = 0
          /\ source = SlideShow(1, <<0, 40>>)
          /\ durationKnown = TRUE
          /\ diffThreshold = 0
          /\ NoPage
       \/ PageRun("local", PageCaptureInterval, PageMaxScreenshots)
    /\ ExtractInit
    /\ LiveInit
    /\ CalInit
    /\ EnvInit
    /\ NoRecording
    /\ NoMetric

\* the steps of the functions and of the page: callbacks and continuations
\* the event loop runs once they are ready
ProgramStep ==
    \/ ExtractStart
    \/ OnSeeked
    \/ ToBlobCallback
    \/ AfterCapture
    \/ PreprocessStart
    \/ OnSeekedPreProcess
    \/ AfterPreProcessFrame
    \/ HandleProcessVideo
    \/ AfterPreprocess

NextEnv ==
    \/ ProgramStep
    \/ SeekFails
    \/ CallerAborts
    \/ UserSeeks
    \/ MetadataLoaded
    \/ VideoLoadFails
    \/ HandleReset

SpecEnv == InitEnv /\ [][NextEnv]_vars /\ WF_vars(ProgramStep)

\* ----------------------------------------------------------------- claims
Done == running = "extract" /\ pc = "done"
Last(seq) == seq[Len(seq)]
Hundred == Num(100)

\* C1: the number of onFrameCaptured calls never exceeds maxScreenshots.
C1_NeverMoreThanMax == framesCaptured <= maxScreenshots

\* the cap ended a run while the source had time left
C1_Witness ==
    /\ Done
    /\ maxScreenshots = MaxCap
    /\ framesCaptured = maxScreenshots
    /\ currentTime <= totalDuration

C4_ProgressNonDecreasing ==
    \A i \in 1..(Len(progressLog) - 1) :
        Leq(progressLog[i], progressLog[i + 1])

C4_Witness ==
    /\ Done
    /\ Len(progressLog) >= 3
    /\ progressLog[1].v < progressLog[2].v
    /\ progressLog[2].v < progressLog[3].v

\* C5 as stated: no sample whose progress value is 100 is followed by
\* another sample.
C5_HundredOnlyAtFinalSample ==
    \A i \in 1..Len(progressLog) :
        progressLog[i] = Hundred => sampled = progressAt[i]

\* C5 amended: a progress value of 100 is emitted only for a sample at a time
\* t >= 0.995 * duration; such a sample is followed by another sample only
\* when duration >= 200 * captureInterval, and every later progress value is
\* 100 too.
C5_HundredOnlyNearEnd ==
    \A i \in 1..Len(progressLog) :
        progressLog[i] = Hundred =>
            /\ 200 * seekLog[i] >= 199 * totalDuration
            /\ progressAt[i] = i
            /\ sampled > progressAt[i] =>
                  totalDuration >= 200 * captureInterval
            /\ \A j \in i..Len(progressLog) : progressLog[j] = Hundred

\* progress 100 at the last sample but one
C5_Witness ==
    /\ Done
    /\ Len(progressLog) >= 2
    /\ progressLog[Len(progressLog) - 1] = Hundred
    /\ Last(progressLog) = Hundred

\* C6: every progress value is a number in [0, 100], duration 0 included.
C6_ProgressInRange ==
    \A i \in 1..Len(progressLog) :
        /\ ~progressLog[i].nan
        /\ progressLog[i].v \in 0..100

\* C7: on a source of duration 0 with maxScreenshots >= 1 the run takes one
\* sample, at time 0, accepts and emits it, and completes.
C7_ZeroDurationOneFrame ==
    (running = "extract" /\ totalDuration = 0 /\ maxScreenshots >= 1) =>
        /\ Len(seekLog) <= 1
        /\ Len(completeLog) <= 1
        /\ Done => /\ seekLog = <<0>>
                   /\ sampled = 1
                   /\ shouldCapture
                   /\ framesCaptured = 1
                   /\ completeLog = <<1>>

C7_Witness ==
    /\ Done
    /\ totalDuration = 0
    /\ maxScreenshots >= 1
    /\ framesCaptured = 1

\* C8: with maxScreenshots = 0 the run issues no seek, emits no frame and no
\* progress value, and calls onComplete with no screenshot at once.
C8_ZeroCapCompletesAtOnce ==
    (running = "extract" /\ maxScreenshots = 0) =>
        /\ seekLog = <<>>
        /\ sampled = 0
        /\ framesCaptured = 0
        /\ progressLog = <<>>
        /\ \/ pc = "start" /\ completeLog = <<>>
           \/ pc = "done" /\ completeLog = <<0>>

C8_Witness ==
    /\ Done
    /\ maxScreenshots = 0
    /\ totalDuration = MaxDuration
    /\ completeLog = <<0>>

\* C9: a frame after the first is accepted iff its score against the
\* reference frame is greater than the threshold, in the extractor and in
\* the live filter: a score equal to the threshold is not accepted.
C9_StrictComparison ==
    /\ [][(running = "extract" /\ sampled' = sampled + 1
                               /\ previousImageData # Null) =>
            LET score == calculateImageDifference(previousImageData,
                                                  previousImageData')
            IN  /\ (pc' = "encoding") <=> (score.v > differenceThreshold)
                /\ score.v = differenceThreshold => pc' = "resolved"]_vars
    /\ [][(statsUpdates' = statsUpdates + 1 /\ lastImageDataRef # Null) =>
            LET score == calculateImageDifference(lastImageDataRef,
                                                  lastImageDataRef')
            IN  /\ (livePending' = livePending + 1) <=>
                       (score.v > diffThreshold)
                /\ score.v = diffThreshold => livePending' = livePending]_vars

\* the second sample, of grey level 40, is rejected with threshold 30 though
\* it differs from the first: the first has grey level 10 (the levels 0 and
\* 100 score 40 and 60), so the score is 30, equal to the threshold
C9_Witness ==
    /\ running = "extract"
    /\ pc = "resolved"
    /\ sampled = 2
    /\ differenceThreshold = 30
    /\ previousImageData = Grey(40)
    /\ ~allSame
    /\ ~shouldCapture
    /\ framesCaptured = 1

\* C10: the sample times are 0, captureInterval, 2 * captureInterval, ...,
\* and the run ends only when the next time exceeds the duration, the cap is
\* reached or 21 samples in a row were rejected.
C10_SampleTimes ==
    running = "extract" =>
        /\ \A i \in 1..Len(seekLog) : seekLog[i] = (i - 1) * captureInterval
        /\ \A i \in 1..(Len(seekLog) - 1) : seekLog[i] < seekLog[i + 1]
        /\ Done =>
              \/ Len(seekLog) * captureInterval > totalDuration
              \/ screenshots >= maxScreenshots
              \/ noNewScreenshotCount = 21

\* a run ended by the stagnation cutoff alone
C10_Witness ==
    /\ Done
    /\ ~allSame
    /\ noNewScreenshotCount = 21
    /\ Len(seekLog) * captureInterval <= totalDuration
    /\ screenshots < maxScreenshots

CalDone == running = "calibrate" /\ pc = "done"

\* the number of collected scores below x, and not above x
ScoresBelow(x) == Cardinality({i \in 1..Len(differences) : differences[i].v < x})
ScoresUpTo(x) == Cardinality({i \in 1..Len(differences) : differences[i].v <= x})

\* C11: the threshold preprocessVideo returns lies in [10, 60].
C11_ThresholdInRange ==
    \A i \in 1..Len(returnLog) :
        /\ ~returnLog[i].nan
        /\ returnLog[i].v >= 10
        /\ returnLog[i].v <= 60

\* every score is 100, above the range, and 60 is returned
C11_Witness ==
    /\ CalDone
    /\ Len(differences) >= MinSamples
    /\ \A i \in 1..Len(differences) : differences[i].v = 100
    /\ returnLog = <<Num(60)>>

\* C12: when the sampling loop ends with no score collected, preprocessVideo
\* returns 30 (a normal return).
C12_DefaultThreshold ==
    (CalDone /\ Len(differences) = 0) => returnLog = <<Num(30)>>

\* the video has no metadata: its duration is NaN and no sample is taken
C12_Witness ==
    /\ CalDone
    /\ differences = <<>>
    /\ seekLog = <<>>
    /\ returnLog = <<Num(30)>>

\* C13: on a source of duration 0 preprocessVideo captures a single frame,
\* collects no score and returns the default threshold 30.
C13_ZeroDurationDefault ==
    (CalDone /\ durationKnown /\ totalDuration = 0) =>
        /\ sampled = 1
        /\ differences = <<>>
        /\ returnLog = <<Num(30)>>

\* C14 as stated: a calibration run captures at most N frames and collects
\* at most N - 1 scores, N = clamp(floor(duration / 10), 20, 50).
C14_AtMostNFrames ==
    (running = "calibrate" /\ durationKnown) =>
        /\ sampled <= SampleCount(totalDuration)
        /\ Len(differences) <= SampleCount(totalDuration) - 1

\* C14 amended: a calibration run captures at most N + 1 frames and collects
\* one score for each frame after the first, at most N; on a source of 600
\* seconds N = 50, and the run captures 51 frames and collects 50 scores.
C14_AtMostNPlusOneFrames ==
    (running = "calibrate" /\ durationKnown) =>
        LET n == IF totalDuration < 200 THEN 20
                 ELSE IF totalDuration >= 500 THEN 50
                 ELSE totalDuration \div 10
        IN  /\ sampled <= n + 1
            /\ Len(differences) <= n
            /\ sampled >= 1 => Len(differences) = sampled - 1
            /\ (pc = "done" /\ totalDuration = 600) =>
                  (n = 50 /\ sampled = 51 /\ Len(differences) = 50)

C14_Witness ==
    /\ CalDone
    /\ totalDuration = 600
    /\ sampled = 51
    /\ Len(differences) = 50

\* C15: with at least one score, preprocessVideo returns the score of rank
\* floor(n / 2) (from 0) of the n scores in ascending order, clamped to
\* [10, 60].
C15_ClampedMedian ==
    (CalDone /\ Len(differences) >= 1) =>
        \E i \in 1..Len(differences) :
            LET m == differences[i].v
                k == Len(differences) \div 2
            IN  /\ ScoresBelow(m) <= k
                /\ ScoresUpTo(m) >= k + 1
                /\ returnLog = <<Num(IF m < 10 THEN 10
                                     ELSE IF m > 60 THEN 60 ELSE m)>>

\* scores that were not collected in ascending order, with a median inside
\* the range
C15_Witness ==
    /\ CalDone
    /\ returnLog = <<Num(40)>>
    /\ \E i \in 1..(Len(differences) - 1) :
          differences[i].v > differences[i + 1].v

\* C16 as stated: with an even number of scores the value picked is the lower
\* of the two middle values of the scores in ascending order.
C16_LowerMedian ==
    (CalDone /\ Len(differences) >= 2 /\ Len(differences) % 2 = 0) =>
        LET k == Len(differences) \div 2
        IN  /\ ScoresBelow(medianDiff.v) <= k - 1
            /\ ScoresUpTo(medianDiff.v) >= k

\* C16 amended: with an even number n of scores the value picked is the upper
\* of the two middle values (rank n / 2 from 0), one of the scores, not an
\* average.
C16_UpperMedian ==
    (CalDone /\ Len(differences) >= 2 /\ Len(differences) % 2 = 0) =>
        LET k == Len(differences) \div 2
        IN  /\ ~medianDiff.nan
            /\ \E i \in 1..Len(differences) : differences[i] = medianDiff
            /\ ScoresBelow(medianDiff.v) <= k
            /\ ScoresUpTo(medianDiff.v) >= k + 1

\* twenty scores, ten of them 0 and ten 40: the middle values are 0 and 40
\* and 40 is picked
C16_Witness ==
    /\ CalDone
    /\ Len(differences) = 20
    /\ ScoresUpTo(0) = 10
    /\ ScoresBelow(40) = 10
    /\ medianDiff = Num(40)

\* the decision in force before decision i: the most recent accepted one
\* (0 when there is none)
LastAccepted(i) ==
    LET earlier == {j \in 1..(i - 1) : liveDecisions[j].accepted}
    IN  IF earlier = {} THEN 0
        ELSE CHOOSE j \in earlier : \A k \in earlier : k <= j

PushedAABA ==
    /\ running = "live"
    /\ Len(liveDecisions) = 4
    /\ liveDecisions[2].frame = liveDecisions[1].frame
    /\ liveDecisions[4].frame = liveDecisions[1].frame
    /\ liveDecisions[3].frame # liveDecisions[1].frame

\* C18: the live filter fed A, A, B, A with 0 <= threshold < d(A, B)
\* accepts exactly the frames 0, 2 and 3.
C18_AcceptsFirstThirdFourth ==
    (/\ PushedAABA
     /\ diffThreshold >= 0
     /\ diffThreshold < calculateImageDifference(liveDecisions[1].frame,
                                                 liveDecisions[3].frame).v) =>
        /\ [i \in 1..4 |-> liveDecisions[i].accepted]
              = <<TRUE, FALSE, TRUE, TRUE>>
        /\ livePending + liveCaptured = 3

\* A = grey 10, B = grey 100, threshold 60, and the three frames handed over
C18_Witness ==
    /\ PushedAABA
    /\ liveDecisions[1].frame = Grey(10)
    /\ liveDecisions[3].frame = Grey(100)
    /\ diffThreshold = 60
    /\ liveCaptured = 3
    /\ livePending = 0

\* C19: when a seek never completes, preprocessVideo and
\* extractFramesFromVideo do not wait forever: the run leaves the seek (to
\* end with a failure).
C19_FailedSeekDoesNotHang == videoError ~> (pc # "seeking")

\* C20: after the caller has aborted a run of extractFramesFromVideo or of
\* preprocessVideo, the run emits no further onProgress, onFrameCaptured or
\* onComplete event.
C20_NoEventAfterAbort ==
    [][aborted => /\ progressLog' = progressLog
                  /\ framesCaptured' = framesCaptured
                  /\ completeLog' = completeLog]_vars

\* the frame a slide show shows at time t
FrameAt(t) == CHOOSE f \in FramesAt(t) : TRUE

\* C22: in extractFramesFromVideo every sample after the first is decided by
\* its score against the sample taken just before it, accepted or not; the
\* reference is replaced by the new sample on acceptance and on rejection.
C22_AgainstPreviousSample ==
    (running = "extract" /\ source.kind = "slides") =>
        /\ sampled >= 1 => previousImageData = FrameAt(seekLog[sampled])
        /\ sampled >= 2 =>
              (shouldCapture <=>
                  calculateImageDifference(FrameAt(seekLog[sampled - 1]),
                                           FrameAt(seekLog[sampled])).v
                      > differenceThreshold)

\* slides of grey 0, 10, 40 and threshold 30: the second sample is rejected
\* and is the reference of the third, which scores 30 against it and is
\* rejected too (it scores 40 against the first, the only accepted one)
C22_Witness ==
    /\ running = "extract"
    /\ source = Slides(1)
    /\ differenceThreshold = 30
    /\ sampled = 3
    /\ ~shouldCapture
    /\ previousImageData = Grey(40)
    /\ framesCaptured = 1

\* C24: the count of consecutive rejections goes up by one with each
\* rejected sample and back to 0 with each accepted one, it never exceeds
\* 21, and no seek is issued once it exceeds 20.
C24_ConsecutiveRejections ==
    /\ [](running = "extract" => noNewScreenshotCount <= 21)
    /\ [][(running = "extract" /\ sampled' = sampled + 1 /\ sampled >= 1) =>
             noNewScreenshotCount' = IF shouldCapture' THEN 0
                                     ELSE noNewScreenshotCount + 1]_vars
    /\ [][(running = "extract" /\ sampled' = sampled) =>
             noNewScreenshotCount' = noNewScreenshotCount]_vars
    /\ [][(running = "extract" /\ noNewScreenshotCount > 20) =>
             (seekLog' = seekLog /\ pc' = "done")]_vars

\* a rejection, an acceptance that resets the count, then 21 rejections in
\* a row end the run with time left
C24_Witness ==
    /\ Done
    /\ noNewScreenshotCount = 21
    /\ sampled = 24
    /\ framesCaptured = 2
    /\ Len(seekLog) * captureInterval <= totalDuration

\* the seeks issued whose seeked handler has not run yet
SeeksInFlight == Len(seekLog) - sampled

\* C25: within one run of extractFramesFromVideo or preprocessVideo at most
\* one seek is in flight, and the next seek is issued only after the handler
\* of the previous one has run and its frame, when accepted, was encoded and
\* handed over.
C25_OneSeekInFlight ==
    /\ [](running \in {"extract", "calibrate"} =>
            /\ SeeksInFlight \in {0, 1}
            /\ SeeksInFlight = 1 <=> pc = "seeking")
    /\ [][(running \in {"extract", "calibrate"} /\ seekLog' # seekLog) =>
            /\ Len(seekLog') = Len(seekLog) + 1
            /\ sampled = Len(seekLog)
            /\ pc \in {"start", "resolved"}
            /\ pc' = "seeking"]_vars

\* the second seek of a run, issued after the first frame was encoded and
\* handed to onFrameCaptured
C25_Witness ==
    /\ running = "extract"
    /\ pc = "seeking"
    /\ Len(seekLog) = 2
    /\ sampled = 1
    /\ framesCaptured = 1

\* C23: with every seek followed by its seeked event, extractFramesFromVideo
\* eventually calls onComplete, and calls it exactly once.
C23_CompletesOnce ==
    /\ <>(Done /\ Len(completeLog) = 1)
    /\ [](Len(completeLog) <= 1)
    /\ [][completeLog # <<>> => completeLog' = completeLog]_vars

\* a run ended by the stagnation cutoff has completed once, with the one
\* frame it accepted
C23_Witness ==
    /\ Done
    /\ totalDuration = TalkDuration
    /\ noNewScreenshotCount = 21
    /\ completeLog = <<1>>

\* C27: with every seek followed by its seeked event, preprocessVideo
\* returns, after at most 51 samples, for every duration >= 0, the duration
\* 0 included, where the sample time stays 0.
C27_CalibrationTerminates ==
    /\ <>(CalDone /\ Len(returnLog) = 1)
    /\ [](sampled <= MaxSamples + 1)

\* duration 0: 21 samples, all at time 0
C27_Witness ==
    /\ CalDone
    /\ totalDuration = 0
    /\ durationKnown
    /\ sampled = 21
    /\ \A i \in 1..Len(seekLog) : seekLog[i] = 0

\* C21: calculateImageDifference called on two frames of unequal size fails
\* with an error: it returns no score.
C21_UnequalSizesFail ==
    (running = "metric" /\ Len(imgData1) # Len(imgData2)) =>
        metricResult = <<>>

\* C29: on the screen-recording page the automatic capture is active
\* whenever recordingState is "recording", after a pause and a resume too:
\* its timeout is pending or its interval is running.
C29_CaptureWhileRecording ==
    (running = "record" /\ recordingState = "recording") =>
        captureTimer \in {"delay", "interval"}

\* C26: after extractFramesFromVideo has called onComplete, onFrameCaptured
\* is not called again for that run, whatever seeked events the video fires
\* later (the user scrubbing the preview): the handler is one-shot.
C26_NoFrameAfterComplete ==
    [][(running = "extract" /\ completeLog # <<>>) =>
            framesCaptured' = framesCaptured]_vars

\* C28: on the local-video page, after handleReset during a run, the
\* abandoned run appends no frame to the list of screenshots and does not
\* set processingState to "completed" or "extracting".
C28_ResetSilencesRun ==
    [][(page = "local" /\ aborted) =>
            /\ pageScreenshots' = pageScreenshots
            /\ processingState' \in {"completed", "extracting"} =>
                  processingState' = processingState]_vars

\* C30: on the online-video page, once handleProcessVideo has set
\* processingState to "analyzing", processingState eventually becomes
\* "completed" or "error", also when the metadata of the video was loaded
\* before the processing was started.
C30_ProcessingSettles ==
    (page = "online" /\ processingState = "analyzing") ~>
        (processingState \in {"completed", "error"})

=============================================================================
